---- MODULE Spec2Model ----
(***************************************************************************)
(* Model of src/pages/StakeholderMapsPage.tsx: the filteredCharters memo   *)
(* (search, department filter, sort) and the assignment dialog handlers.   *)
(* Strings are sequences of one-character strings, so that toLowerCase,    *)
(* includes, trim and localeCompare are computed and not assumed.          *)
(* An optional value is <<>> (null / undefined) or <<v>>.                  *)
(***************************************************************************)
EXTENDS Integers, Sequences, FiniteSets, TLC

VARIABLES charters, search, sortBy, sortDirection, departmentFilter,
          filteredCharters, dialog, toast, inflight, submissions, calls,
          lastOutcome, unhandled

engineVars == <<charters, search, sortBy, sortDirection, departmentFilter, filteredCharters>>
pageVars == <<dialog, toast, inflight, submissions, calls, lastOutcome, unhandled>>
vars == <<charters, search, sortBy, sortDirection, departmentFilter,
          filteredCharters, dialog, toast, inflight, submissions, calls,
          lastOutcome, unhandled>>

\* ---------------------------------------------------------------- bounds
\* Longest charter collection the listing collaborator supplies.
MaxCharters == 3
\* Most invocations of handleAddStakeholder in one behaviour.
MaxSubmissions == 2

\* --------------------------------------------------------------- strings
None == <<>>
Some(v) == <<v>>

Lowercase == <<"a","b","c","d","e","f","g","h","i","j","k","l","m",
               "n","o","p","q","r","s","t","u","v","w","x","y","z">>
Uppercase == <<"A","B","C","D","E","F","G","H","I","J","K","L","M",
               "N","O","P","Q","R","S","T","U","V","W","X","Y","Z">>
\* Non-letters of the model alphabet, in collation order.
Punctuation == <<" ", ".", "@">>

Range(seq) == {seq[k] : k \in DOMAIN seq}
Alphabet == Range(Punctuation) \cup Range(Lowercase) \cup Range(Uppercase)
IndexIn(seq, ch) == CHOOSE k \in DOMAIN seq : seq[k] = ch

IsUpper(ch) == ch \in Range(Uppercase)

\* The lower-case form of each character.
LowerOf ==
    [ch \in Alphabet |-> IF IsUpper(ch) THEN Lowercase[IndexIn(Uppercase, ch)] ELSE ch]

ToLowerCaseOmitted(str) == str

\* String.prototype.toLowerCase
ToLowerCase(str) == [i \in 1..Len(str) |-> LowerOf[str[i]]]

RECURSIVE IndexOfFrom(_, _, _)
IndexOfFrom(str, sub, k) ==
    IF k + Len(sub) > Len(str) THEN -1
    ELSE IF SubSeq(str, k + 1, k + Len(sub)) = sub THEN k
    ELSE IndexOfFrom(str, sub, k + 1)

\* String.prototype.includes
Includes(str, sub) == IndexOfFrom(str, sub, 0) # -1

RECURSIVE TrimStart(_)
TrimStart(str) ==
    IF str # <<>> /\ Head(str) = " " THEN TrimStart(Tail(str)) ELSE str

RECURSIVE TrimEnd(_)
TrimEnd(str) ==
    IF str # <<>> /\ str[Len(str)] = " "
    THEN TrimEnd(SubSeq(str, 1, Len(str) - 1)) ELSE str

\* String.prototype.trim
Trim(str) == TrimEnd(TrimStart(str))

\* `${first_name} ${last_name}`
FullName(profile) == profile.first_name \o <<" ">> \o profile.last_name

\* Collation keys of localeCompare on the model alphabet: the primary key
\* orders punctuation before letters and ignores case, the tertiary key
\* puts a lower-case letter before its upper-case form.
CharRank ==
    [ch \in Alphabet |->
        IF ch \in Range(Punctuation) THEN IndexIn(Punctuation, ch)
        ELSE Len(Punctuation) + IndexIn(Lowercase, LowerOf[ch])]

CaseRank == [ch \in Alphabet |-> IF IsUpper(ch) THEN 1 ELSE 0]

PrimaryKey(str) == [i \in 1..Len(str) |-> CharRank[str[i]]]
TertiaryKey(str) == [i \in 1..Len(str) |-> CaseRank[str[i]]]

RECURSIVE LexCompare(_, _)
LexCompare(k1, k2) ==
    IF k1 = <<>> /\ k2 = <<>> THEN 0
    ELSE IF k1 = <<>> THEN -1
    ELSE IF k2 = <<>> THEN 1
    ELSE IF Head(k1) < Head(k2) THEN -1
    ELSE IF Head(k1) > Head(k2) THEN 1
    ELSE LexCompare(Tail(k1), Tail(k2))

\* String.prototype.localeCompare
LocaleCompare(s1, s2) ==
    LET p == LexCompare(PrimaryKey(s1), PrimaryKey(s2))
    IN IF p # 0 THEN p ELSE LexCompare(TertiaryKey(s1), TertiaryKey(s2))

\* new Date(created_at).getTime(), in hours: a timestamp string carries a
\* local day and hour and the zone offset it is written in.
GetTime(created_at) == created_at.day * 24 + created_at.hour - created_at.tz

\* ----------------------------------------------------------- input data
sAlpha == <<"A","l","p","h","a">>
sAlphaLower == <<"a","l","p","h","a">>
sBeta == <<"B","e","t","a">>
sJane == <<"J","a","n","e">>
sDoe == <<"D","o","e">>
sLi == <<"L","i">>
sEngineering == <<"e","n","g","i","n","e","e","r","i","n","g">>
sLegal == <<"l","e","g","a","l">>
sFinance == <<"f","i","n","a","n","c","e">>
sLead == <<"l","e","a","d">>
sMember == <<"m","e","m","b","e","r">>
sEmailT == <<"t","a","@","x",".","i","o">>
sEmailB == <<"B","@","y",".","i","o">>

Stakeholder(email, department, role, profiles) ==
    [email |-> email, department |-> department, role |-> role, profiles |-> profiles]

Profile(first, last) == [first_name |-> first, last_name |-> last]

Timestamp(day, hour, tz) == [day |-> day, hour |-> hour, tz |-> tz]

c1 == [id |-> "c1", title |-> sAlpha, description |-> None,
       created_at |-> Timestamp(1, 0, 0), profiles |-> Some(Profile(sJane, sDoe)),
       isOwner |-> TRUE,
       stakeholders |-> <<Stakeholder(sEmailT, sEngineering, sLead, None)>>]
c2 == [id |-> "c2", title |-> sBeta, description |-> Some(<<"L","E","G","A","L">>),
       created_at |-> Timestamp(2, 0, 0), profiles |-> None,
       isOwner |-> FALSE,
       stakeholders |-> <<>>]
c3 == [id |-> "c3", title |-> sAlphaLower, description |-> Some(<<>>),
       created_at |-> Timestamp(1, 2, 2), profiles |-> Some(Profile(<<>>, <<>>)),
       isOwner |-> FALSE,
       stakeholders |-> <<Stakeholder(sEmailB, sLegal, sMember, Some(Profile(sJane, sLi)))>>]
c4 == [id |-> "c4", title |-> sAlpha, description |-> Some(sJane),
       created_at |-> Timestamp(3, 0, 0), profiles |-> Some(Profile(sJane, sDoe)),
       isOwner |-> TRUE,
       stakeholders |-> <<Stakeholder(sEmailB, sLegal, sLead, None),
                          Stakeholder(sEmailT, sEngineering, sMember, None)>>]

CharterPool == {c1, c2, c3, c4}

\* Collections of charters with distinct ids, in any order.
Collections ==
    UNION {{cs \in [1..n -> CharterPool] :
                \A i, j \in 1..n : i # j => cs[i].id # cs[j].id} : n \in 0..MaxCharters}

SearchTexts == {<<>>, <<"E","N","G">>, <<"j","a","n","e">>, <<"e"," ","d">>,
                <<"l","e">>, <<"t","a">>, <<"z","z">>}
Departments == {sEngineering, sLegal, sFinance}
DepartmentFilters == {<<>>} \cup Departments
SortKeys == {"title", "steward", "date"}
SortDirections == {"asc", "desc"}

\* ------------------------------------------------ JavaScript truthiness
\* Values an expression of the search predicate can have: a boolean, or
\* the undefined / null that an optional chain or && passes through.
JsBool(b) == IF b THEN "true" ELSE "false"
Truthy(v) == v = "true"
JsOr(v1, v2) == IF Truthy(v1) THEN v1 ELSE v2
\* if (search), if (departmentFilter): a string is truthy iff non-empty.
TruthyString(str) == str # <<>>

\* ------------------------------------------------------- search step
TitleMatch(charter, searchLower) ==
    JsBool(Includes(ToLowerCase(charter.title), searchLower))

DescriptionMatch(charter, searchLower) ==
    IF charter.description = None THEN "undefined"
    ELSE JsBool(Includes(ToLowerCase(charter.description[1]), searchLower))

NameMatch(s, searchLower) ==
    IF s.profiles = None THEN "null"
    ELSE JsBool(Includes(ToLowerCase(FullName(s.profiles[1])), searchLower))

StakeholderPredicate(s, searchLower) ==
    LET emailMatch == JsBool(Includes(ToLowerCase(s.email), searchLower))
        departmentMatch == JsBool(Includes(ToLowerCase(s.department), searchLower))
        roleMatch == JsBool(Includes(ToLowerCase(s.role), searchLower))
        nameMatch == NameMatch(s, searchLower)
    IN JsOr(JsOr(JsOr(emailMatch, departmentMatch), nameMatch), roleMatch)

StakeholderMatch(charter, searchLower) ==
    JsBool(\E i \in DOMAIN charter.stakeholders :
              Truthy(StakeholderPredicate(charter.stakeholders[i], searchLower)))

StewardMatch(charter, searchLower) ==
    IF charter.profiles = None THEN "null"
    ELSE JsBool(Includes(ToLowerCase(FullName(charter.profiles[1])), searchLower))

SearchKeep(charter, searchLower) ==
    Truthy(JsOr(JsOr(JsOr(TitleMatch(charter, searchLower),
                          DescriptionMatch(charter, searchLower)),
                     StakeholderMatch(charter, searchLower)),
                StewardMatch(charter, searchLower)))

\* --------------------------------------------------- department step
DepartmentKeepEvery(charter, dept) ==
    \A i \in DOMAIN charter.stakeholders : charter.stakeholders[i].department = dept

DepartmentKeep(charter, dept) ==
    \E i \in DOMAIN charter.stakeholders : charter.stakeholders[i].department = dept

\* --------------------------------------------------------- comparator
StewardNameUnguarded(charter) ==
    IF charter.profiles = None
    THEN <<"u","n","d","e","f","i","n","e","d"," ","u","n","d","e","f","i","n","e","d">>
    ELSE Trim(FullName(charter.profiles[1]))

StewardName(charter) ==
    IF charter.profiles = None THEN <<>> ELSE Trim(FullName(charter.profiles[1]))

DateComparisonAMinusB(a, b) == GetTime(a.created_at) - GetTime(b.created_at)

DateComparison(a, b) == GetTime(b.created_at) - GetTime(a.created_at)

Comparison(a, b, by) ==
    CASE by = "title" -> LocaleCompare(a.title, b.title)
      [] by = "steward" -> LocaleCompare(StewardName(a), StewardName(b))
      [] by = "date" -> DateComparison(a, b)

ApplyDirectionIgnored(comparison, dir) == comparison

ApplyDirection(comparison, dir) == IF dir = "asc" THEN comparison ELSE -comparison

Compare(a, b, by, dir) == ApplyDirection(Comparison(a, b, by), dir)

\* --------------------------------------------------------------- sort
Max(S) == CHOOSE x \in S : \A y \in S : y <= x

\* Insertion of x behind the last element that does not sort after it.
InsertSorted(sorted, x, by, dir) ==
    LET notAfter == {j \in DOMAIN sorted : Compare(sorted[j], x, by, dir) <= 0}
        pos == IF notAfter = {} THEN 0 ELSE Max(notAfter)
    IN SubSeq(sorted, 1, pos) \o <<x>> \o SubSeq(sorted, pos + 1, Len(sorted))

RECURSIVE SortPrefix(_, _, _, _)
SortPrefix(arr, n, by, dir) ==
    IF n = 0 THEN <<>>
    ELSE InsertSorted(SortPrefix(arr, n - 1, by, dir), arr[n], by, dir)

\* Variants of the sort: one that puts an element before its ties, one
\* that keeps a single element per comparison key.
InsertBeforeTies(sorted, x, by, dir) ==
    LET before == {j \in DOMAIN sorted : Compare(sorted[j], x, by, dir) < 0}
        pos == IF before = {} THEN 0 ELSE Max(before)
    IN SubSeq(sorted, 1, pos) \o <<x>> \o SubSeq(sorted, pos + 1, Len(sorted))

RECURSIVE SortPrefixUnstable(_, _, _, _)
SortPrefixUnstable(arr, n, by, dir) ==
    IF n = 0 THEN <<>>
    ELSE InsertBeforeTies(SortPrefixUnstable(arr, n - 1, by, dir), arr[n], by, dir)

ArraySortUnstable(arr, by, dir) == SortPrefixUnstable(arr, Len(arr), by, dir)

RECURSIVE SortPrefixDropTies(_, _, _, _)
SortPrefixDropTies(arr, n, by, dir) ==
    IF n = 0 THEN <<>>
    ELSE LET rest == SortPrefixDropTies(arr, n - 1, by, dir)
         IN IF \E j \in DOMAIN rest : Compare(rest[j], arr[n], by, dir) = 0
            THEN rest
            ELSE InsertSorted(rest, arr[n], by, dir)

ArraySortDropTies(arr, by, dir) == SortPrefixDropTies(arr, Len(arr), by, dir)

\* Array.prototype.sort with the comparator of the memo (a stable sort).
ArraySort(arr, by, dir) == SortPrefix(arr, Len(arr), by, dir)

\* ------------------------------------------------- the memo as a whole
\* Arrays live in a heap of two cells: "charters" is the array the listing
\* collaborator supplied, "fresh" the newest array the memo allocated.  An
\* array value is the name of its cell.
SpreadAlias(heap, ref) == [heap |-> heap, ref |-> ref]

\* [...charters]: a new array with the same elements
Spread(heap, ref) == [heap |-> [heap EXCEPT !.fresh = heap[ref]], ref |-> "fresh"]

\* filtered.filter(...) with the search predicate: a new array
FilterSearch(heap, ref, searchLower) ==
    LET Keep(charter) == SearchKeep(charter, searchLower)
    IN [heap |-> [heap EXCEPT !.fresh = SelectSeq(heap[ref], Keep)], ref |-> "fresh"]

\* filtered.filter(...) with the department predicate: a new array
FilterDepartment(heap, ref, dept) ==
    LET Keep(charter) == DepartmentKeep(charter, dept)
    IN [heap |-> [heap EXCEPT !.fresh = SelectSeq(heap[ref], Keep)], ref |-> "fresh"]

\* filtered.sort(...): sorts the array in its cell
SortInPlace(heap, ref, by, dir) ==
    [heap |-> [heap EXCEPT ![ref] = ArraySort(heap[ref], by, dir)], ref |-> ref]

\* The useMemo callback.  Yields the supplied array as it is afterwards
\* and the array the memo returns.
SearchStep(h, s) ==
    IF TruthyString(s) THEN FilterSearch(h.heap, h.ref, ToLowerCase(s)) ELSE h

DepartmentStep(h, dept) ==
    IF TruthyString(dept) THEN FilterDepartment(h.heap, h.ref, dept) ELSE h

SortStep(h, by, dir) == SortInPlace(h.heap, h.ref, by, dir)

MemoResult(h) == [charters |-> h.heap.charters, filtered |-> h.heap[h.ref]]

FilteredChartersMemo(cs, s, by, dir, dept) ==
    MemoResult(SortStep(DepartmentStep(SearchStep(
        Spread([charters |-> cs, fresh |-> <<>>], "charters"), s), dept), by, dir))

\* filterAndSort(charters, config) of the specification: the returned array
FilterAndSort(cs, s, by, dir, dept) == FilteredChartersMemo(cs, s, by, dir, dept).filtered

\* ------------------------------------------------------------- toasts
ShowToast(message, type) == [isVisible |-> TRUE, message |-> message, type |-> type]
SuccessToast == ShowToast("Stakeholder added successfully", "default")
ErrorToast == ShowToast("Failed to add stakeholder", "error")

\* ---------------------------------------------------------------- Init
InitWith(cs) ==
    \E memo \in {FilteredChartersMemo(cs, <<>>, "title", "asc", <<>>)} :
       /\ charters = memo.charters
       /\ search = <<>>
       /\ sortBy = "title"
       /\ sortDirection = "asc"
       /\ departmentFilter = <<>>
       /\ filteredCharters = memo.filtered
       /\ dialog = None
       /\ toast = [isVisible |-> FALSE, message |-> "", type |-> "default"]
       /\ inflight = {}
       /\ submissions = 0
       /\ calls = 0
       /\ lastOutcome = "none"
       /\ unhandled = FALSE

Init == \E cs \in Collections : InitWith(cs)

\* ------------------------------------------------- query configuration
\* The page renders MapFilters only when charters is non-empty; a state
\* setter called with the current value causes no re-render.
Rederive(s, by, dir, dept) ==
    \E memo \in {FilteredChartersMemo(charters, s, by, dir, dept)} :
        /\ charters' = memo.charters
        /\ filteredCharters' = memo.filtered

SetSearch(s) ==
    /\ Len(charters) # 0
    /\ s # search
    /\ search' = s
    /\ Rederive(s, sortBy, sortDirection, departmentFilter)
    /\ UNCHANGED <<sortBy, sortDirection, departmentFilter>>
    /\ UNCHANGED pageVars

SetSortBy(by) ==
    /\ Len(charters) # 0
    /\ by # sortBy
    /\ sortBy' = by
    /\ Rederive(search, by, sortDirection, departmentFilter)
    /\ UNCHANGED <<search, sortDirection, departmentFilter>>
    /\ UNCHANGED pageVars

SetSortDirection(dir) ==
    /\ Len(charters) # 0
    /\ dir # sortDirection
    /\ sortDirection' = dir
    /\ Rederive(search, sortBy, dir, departmentFilter)
    /\ UNCHANGED <<search, sortBy, departmentFilter>>
    /\ UNCHANGED pageVars

SetDepartmentFilter(dept) ==
    /\ Len(charters) # 0
    /\ dept # departmentFilter
    /\ departmentFilter' = dept
    /\ Rederive(search, sortBy, sortDirection, dept)
    /\ UNCHANGED <<search, sortBy, sortDirection>>
    /\ UNCHANGED pageVars

Next ==
    \/ \E s \in SearchTexts : SetSearch(s)
    \/ \E by \in SortKeys : SetSortBy(by)
    \/ \E dir \in SortDirections : SetSortDirection(dir)
    \/ \E dept \in DepartmentFilters : SetDepartmentFilter(dept)

Spec == Init /\ [][Next]_vars

\* ---------------------------------------------------- assignment dialog
Roles == {sLead, sMember}
Emails == {sEmailB}
AssignDepartments == {sEngineering, sLegal}
Outcomes == {"true", "false", "throw"}

\* handleAssign, wired to the map of each rendered charter the user owns.
HandleAssign(charterId, department) ==
    /\ \E i \in DOMAIN filteredCharters :
          filteredCharters[i].id = charterId /\ filteredCharters[i].isOwner
    /\ dialog' = Some([isOpen |-> TRUE, charterId |-> charterId, department |-> department])
    /\ UNCHANGED <<toast, inflight, submissions, calls, lastOutcome, unhandled>>
    /\ UNCHANGED engineVars

\* onClose of AddStakeholderDialog, rendered while dialog is set.
OnClose ==
    /\ dialog # None
    /\ dialog' = None
    /\ UNCHANGED <<toast, inflight, submissions, calls, lastOutcome, unhandled>>
    /\ UNCHANGED engineVars

\* onClose of Toast, rendered while the toast is visible.
HideToast ==
    /\ toast.isVisible
    /\ toast' = [toast EXCEPT !.isVisible = FALSE]
    /\ UNCHANGED <<dialog, inflight, submissions, calls, lastOutcome, unhandled>>
    /\ UNCHANGED engineVars

\* The requests handleAddStakeholder starts: none without a dialog, else one
\* addStakeholder call of the hook bound to the dialog's charter.
StartedCalls(dlg, n, email, role) ==
    IF dlg = None THEN {}
    ELSE {[id |-> n, charterId |-> dlg[1].charterId, email |-> email,
           role |-> role, department |-> dlg[1].department]}

\* handleAddStakeholder up to its await.
HandleAddStakeholder(email, role) ==
    /\ submissions < MaxSubmissions
    /\ submissions' = submissions + 1
    /\ \E started \in {StartedCalls(dialog, submissions + 1, email, role)} :
          /\ inflight' = inflight \cup started
          /\ calls' = calls + Cardinality(started)
    /\ UNCHANGED <<dialog, toast, lastOutcome, unhandled>>
    /\ UNCHANGED engineVars

\* What the continuation of handleAddStakeholder does with the dialog state.
DialogAfterAlwaysClosed(outcome, dlg) == None

DialogAfter(outcome, dlg) == IF outcome = "true" THEN None ELSE dlg

\* The notification it shows.
ToastAfter(outcome) == IF outcome = "true" THEN SuccessToast ELSE ErrorToast

\* Whether the exception of a raising call leaves the handler: the catch
\* clause takes every exception.
Escapes(outcome) == FALSE

\* handleAddStakeholder after its await: addStakeholder returned true or
\* false, or raised.
AddStakeholderSettles(request, outcome) ==
    /\ request \in inflight
    /\ inflight' = inflight \ {request}
    /\ lastOutcome' = outcome
    /\ dialog' = DialogAfter(outcome, dialog)
    /\ toast' = ToastAfter(outcome)
    /\ unhandled' = (unhandled \/ Escapes(outcome))
    /\ UNCHANGED <<submissions, calls>>
    /\ UNCHANGED engineVars

\* The collection the page specification starts from, and the query
\* changes it makes.
PageCharters == <<c1, c2, c4>>
PageSearchTexts == {<<>>, <<"l","e">>, <<"z","z">>}

InitPage == InitWith(PageCharters)

NextPage ==
    \/ \E id \in {"c1", "c2", "c3", "c4"}, dept \in AssignDepartments : HandleAssign(id, dept)
    \/ OnClose
    \/ HideToast
    \/ \E email \in Emails, role \in Roles : HandleAddStakeholder(email, role)
    \/ \E request \in inflight, outcome \in Outcomes : AddStakeholderSettles(request, outcome)
    \/ \E s \in PageSearchTexts : SetSearch(s)

SpecPage == InitPage /\ [][NextPage]_vars

\* =================================================================
\* Properties
\* =================================================================
\* Vocabulary of the properties, stated without the operators of the memo.
SameLetter(x, y) ==
    x = y \/ \E k \in DOMAIN Lowercase : {x, y} = {Lowercase[k], Uppercase[k]}

\* text occurs in field at some offset, letter case disregarded
ContainsIgnoringCase(field, text) ==
    \E off \in 0..(Len(field) - Len(text)) :
        \A j \in 1..Len(text) : SameLetter(field[off + j], text[j])

ProfileNames(profiles) ==
    {profiles[k].first_name \o <<" ">> \o profiles[k].last_name : k \in DOMAIN profiles}

\* The fields of a charter the search looks at; an absent description or
\* profile has none.
SearchFields(c) ==
    {c.title} \cup Range(c.description) \cup ProfileNames(c.profiles)
    \cup UNION {{c.stakeholders[i].email, c.stakeholders[i].department,
                 c.stakeholders[i].role} \cup ProfileNames(c.stakeholders[i].profiles)
                : i \in DOMAIN c.stakeholders}

SearchMatches(c, text) == \E f \in SearchFields(c) : ContainsIgnoringCase(f, text)

HasDepartment(c, dept) == \E i \in DOMAIN c.stakeholders : c.stakeholders[i].department = dept

PassesDepartment(c, dept) == dept = <<>> \/ HasDepartment(c, dept)

Occurrences(seq, c) == Cardinality({k \in DOMAIN seq : seq[k] = c})

Retained(c) == Occurrences(filteredCharters, c) > 0

PositionIn(seq, c) == CHOOSE k \in DOMAIN seq : seq[k] = c

sENG == <<"E","N","G">>
sJaneLower == <<"j","a","n","e">>

\* C1: with a non-empty search text a charter of the input is in the result
\* iff the text occurs, letter case disregarded, in its title, its
\* description, a stakeholder's email, department, role or profile name, or
\* the owner's profile name (and it passes the department filter, the only
\* other exclusion); nothing that is not in the input is in the result.
\* "ENG" finds department engineering and "jane" finds steward Jane Doe.
C1_SearchRetainsExactlyTheMatches ==
    search # <<>> =>
        /\ \A i \in DOMAIN charters :
              Retained(charters[i]) <=>
                  (SearchMatches(charters[i], search)
                   /\ PassesDepartment(charters[i], departmentFilter))
        /\ \A k \in DOMAIN filteredCharters : filteredCharters[k] \in Range(charters)
        /\ (search \in {sENG, sJaneLower} /\ departmentFilter = <<>> /\ c1 \in Range(charters))
              => Retained(c1)

C1_Witness ==
    /\ search = sENG
    /\ departmentFilter = <<>>
    /\ charters = <<c2, c1, c3>>
    /\ filteredCharters = <<c1>>

\* C2: under a set department filter every charter of the result has a
\* stakeholder whose department equals the filter, whatever the search text
\* and the sort; a charter without stakeholders is not in the result.
C2_DepartmentFilterExclusive ==
    departmentFilter # <<>> =>
        \A k \in DOMAIN filteredCharters :
            /\ filteredCharters[k].stakeholders # <<>>
            /\ HasDepartment(filteredCharters[k], departmentFilter)

C2_Witness ==
    /\ departmentFilter = sLegal
    /\ search = <<>>
    /\ c2 \in Range(charters)
    /\ c1 \in Range(charters)
    /\ filteredCharters = <<c4>>

\* C3: with the empty search text the result holds exactly the input
\* charters that pass the department filter, each once.
C3_EmptySearchExcludesNothing ==
    search = <<>> =>
        /\ \A i \in DOMAIN charters :
              Occurrences(filteredCharters, charters[i]) =
                  IF PassesDepartment(charters[i], departmentFilter) THEN 1 ELSE 0
        /\ Len(filteredCharters) =
              Cardinality({i \in DOMAIN charters :
                              PassesDepartment(charters[i], departmentFilter)})

C3_Witness ==
    /\ search = <<>>
    /\ departmentFilter = sEngineering
    /\ sortBy = "title"
    /\ charters = <<c4, c2, c1>>
    /\ filteredCharters = <<c4, c1>>

\* C4: sorted by title, an ascending result has its titles in non-decreasing
\* order and a descending result in non-increasing order; Alpha and Beta
\* come out as Alpha, Beta ascending and Beta, Alpha descending.
C4_TitleSortFollowsDirection ==
    sortBy = "title" =>
        /\ \A i, j \in DOMAIN filteredCharters :
              i < j =>
                  IF sortDirection = "asc"
                  THEN LocaleCompare(filteredCharters[i].title, filteredCharters[j].title) <= 0
                  ELSE LocaleCompare(filteredCharters[i].title, filteredCharters[j].title) >= 0
        /\ (Range(filteredCharters) = {c1, c2}) =>
              filteredCharters = IF sortDirection = "asc" THEN <<c1, c2>> ELSE <<c2, c1>>

C4_Witness ==
    /\ sortBy = "title"
    /\ sortDirection = "desc"
    /\ charters = <<c1, c2>>
    /\ filteredCharters = <<c2, c1>>

\* C5: sorted by date, an ascending result is newest first (createdAt
\* non-increasing) and a descending result oldest first (non-decreasing).
C5_DateSortIsInverted ==
    sortBy = "date" =>
        \A i, j \in DOMAIN filteredCharters :
            i < j =>
                IF sortDirection = "asc"
                THEN GetTime(filteredCharters[i].created_at) >= GetTime(filteredCharters[j].created_at)
                ELSE GetTime(filteredCharters[i].created_at) <= GetTime(filteredCharters[j].created_at)

C5_Witness ==
    /\ sortBy = "date"
    /\ sortDirection = "asc"
    /\ charters = <<c1, c2, c4>>
    /\ filteredCharters = <<c4, c2, c1>>

SameKey(a, b) ==
    CASE sortBy = "title" -> a.title = b.title
      [] sortBy = "steward" -> StewardName(a) = StewardName(b)
      [] sortBy = "date" -> GetTime(a.created_at) = GetTime(b.created_at)

\* C6: charters of the result with equal comparison keys (same title, same
\* trimmed steward name, same instant of creation) keep the relative order
\* they have in the input, in both directions, and deriving the result
\* again from the result itself gives the same sequence.
C6_SortIsStable ==
    /\ \A i, j \in DOMAIN filteredCharters :
          (i < j /\ SameKey(filteredCharters[i], filteredCharters[j])) =>
              PositionIn(charters, filteredCharters[i]) < PositionIn(charters, filteredCharters[j])
    /\ FilterAndSort(filteredCharters, search, sortBy, sortDirection, departmentFilter)
          = filteredCharters

C6_Witness ==
    /\ sortBy = "title"
    /\ sortDirection = "desc"
    /\ charters = <<c4, c1, c2>>
    /\ filteredCharters = <<c2, c4, c1>>

\* C7: no change of the query configuration, with the derivation it
\* triggers, changes the supplied collection: same charters, same order,
\* same records.
C7_InputNeverChanges == [][charters' = charters]_vars

C7_Witness ==
    /\ search = <<>>
    /\ departmentFilter = <<>>
    /\ sortBy = "date"
    /\ charters = <<c1, c2, c4>>
    /\ filteredCharters = <<c4, c2, c1>>

LacksOptional(c) == c.description = None \/ c.profiles = None

HasStewardName(c) ==
    \E n \in ProfileNames(c.profiles) : \E k \in DOMAIN n : n[k] # " "

\* C8: every input has a result, a sequence of input charters; the empty
\* collection gives the empty sequence; a charter that lacks a description
\* or an owner profile is retained by a search only for a field it has; and
\* sorted by steward, ascending, a charter without owner profile precedes
\* every charter whose owner name has a character other than a space.
C8_TotalWithAbsentFields ==
    /\ filteredCharters \in Seq(Range(charters))
    /\ charters = <<>> => filteredCharters = <<>>
    /\ search # <<>> =>
          \A k \in DOMAIN filteredCharters :
              LacksOptional(filteredCharters[k]) => SearchMatches(filteredCharters[k], search)
    /\ (sortBy = "steward" /\ sortDirection = "asc") =>
          \A i, j \in DOMAIN filteredCharters :
              (filteredCharters[i].profiles = None /\ HasStewardName(filteredCharters[j]))
                  => i < j

C8_Witness ==
    /\ sortBy = "steward"
    /\ sortDirection = "asc"
    /\ search = <<"l","e">>
    /\ charters = <<c1, c2>>
    /\ filteredCharters = <<c2, c1>>

Settles == inflight' # inflight /\ inflight' \subseteq inflight

\* C9: a submission calls addStakeholder at most once and not at all without
\* a dialog, where it changes nothing; a call that returns false or raises
\* shows the notification 'Failed to add stakeholder', leaves the dialog
\* state as it is and lets no exception out; the dialog is closed and the
\* success notification shown only by a call that returned true; no call
\* is made again after it fails.
C9_FailedAddIsRecoverable ==
    [][ /\ calls' <= submissions'
        /\ calls' # calls => (submissions' = submissions + 1 /\ calls' = calls + 1)
        /\ submissions' # submissions =>
              IF dialog = None
              THEN UNCHANGED <<dialog, toast, inflight, calls, unhandled>>
              ELSE /\ calls' = calls + 1
                   /\ Cardinality(inflight') = Cardinality(inflight) + 1
                   /\ UNCHANGED <<dialog, toast>>
        /\ Settles =>
              /\ calls' = calls
              /\ lastOutcome' \in {"false", "throw"} =>
                    /\ toast' = [isVisible |-> TRUE, message |-> "Failed to add stakeholder",
                                 type |-> "error"]
                    /\ dialog' = dialog
              /\ lastOutcome' = "true" =>
                    /\ toast'.isVisible
                    /\ toast'.message = "Stakeholder added successfully"
                    /\ dialog' = None
        /\ (toast' # toast /\ toast'.isVisible /\ toast'.message = "Stakeholder added successfully")
              => (Settles /\ lastOutcome' = "true")
        /\ ~unhandled'
      ]_vars

C9_Witness ==
    /\ lastOutcome = "throw"
    /\ dialog = Some([isOpen |-> TRUE, charterId |-> "c1", department |-> sLegal])
    /\ toast.isVisible
    /\ toast.type = "error"
    /\ calls = 1
    /\ inflight = {}

\* C10: a call that returns true leaves open a dialog opened, while the call
\* was in flight, for another charter or department than the one the call
\* was submitted from.
C10_SuccessClosesOnlyItsOwnDialog ==
    [][ (Settles /\ lastOutcome' = "true" /\ dialog # None) =>
            \A request \in inflight \ inflight' :
                (request.charterId # dialog[1].charterId
                 \/ request.department # dialog[1].department) => dialog' = dialog
      ]_vars

====
